---- MODULE Spec2Model ----
(***************************************************************************)
(* KaziTracker backend: the Application lifecycle (routes/applications.py) *)
(* and its Offer side effect, over the tables declared in models.py.       *)
(*                                                                         *)
(* Tables are functions from primary key to row.  A request handler is one *)
(* action: it reads the committed tables, works on session-local copies    *)
(* and replaces the tables only at session.commit(); a handler that raises *)
(* leaves the tables as they were (the Session context manager of          *)
(* core/database.py closes the session without committing).                *)
(***************************************************************************)
EXTENDS Integers, Sequences, FiniteSets, TLC

VARIABLES jobs, resumes, applications, offers, interviews, deadlines,
          nextId, now, last, reqs

tables == <<jobs, resumes, applications, offers, interviews, deadlines>>
vars == <<jobs, resumes, applications, offers, interviews, deadlines,
          nextId, now, last, reqs>>

----------------------------------------------------------------------------
(* Bounds of the model.                                                    *)

\* number of clock readings after StartTime: handlers stop once the clock
\* has advanced MaxCalls times
MaxCalls == 3
\* number of Application rows ever inserted
MaxApps == 2
\* number of Interview (and of Deadline) rows ever inserted
MaxChildren == 2
\* number of update_application requests in flight at the same time
MaxReqs == 2
\* number of Job rows ever inserted
MaxJobs == 3

----------------------------------------------------------------------------
(* Values.                                                                 *)

\* Python None in an integer, float, date or datetime position
Null == -1
\* Python None in a string position
NullStr == "<None>"

Users == {1, 2}

\* datetime.utcnow() is the clock value; .date() drops the time of day
TicksPerDay == 10
DateOf(t) == t - (t % TicksPerDay)

\* the clock reading of the first request; the rows of Init were written
\* one tick earlier
StartTime == 12
ClockRuns == now < StartTime + MaxCalls

\* a datetime supplied by a client (earlier than every clock reading)
ClientDate == 5

\* str.lower() on the status spellings the model sends
Lower(s) ==
    CASE s = "Saved" -> "saved"
      [] s = "Offer" -> "offer"
      [] s = "OFFER" -> "offer"
      [] s = "Applied" -> "applied"
      [] s = "Interview" -> "interview"
      [] s = "Rejected" -> "rejected"
      [] s = "On Hold" -> "on hold"
      [] OTHER -> s

\* Python truthiness of an Optional[str], Optional[float], Optional[datetime]
TruthyStr(v) == v # NullStr /\ v # ""
TruthyNum(v) == v # Null /\ v # 0
TruthyDate(v) == v # Null

----------------------------------------------------------------------------
(* ApplicationUpdate (schemas/application.py): every field Optional,       *)
(* default None.                                                           *)

NoPatch ==
    [status |-> NullStr, applied_date |-> Null, interview_date |-> Null,
     offer_date |-> Null, rejected_date |-> Null, resume_id |-> Null,
     notes |-> NullStr, rejection_reason |-> NullStr,
     offer_salary |-> Null, offer_currency |-> NullStr,
     offer_salary_frequency |-> NullStr, offer_position_type |-> NullStr,
     offer_location |-> NullStr, offer_start_date |-> Null,
     offer_deadline |-> Null, offer_benefits |-> NullStr,
     offer_notes |-> NullStr]

\* r with the fields of d overridden
Override(r, d) == [f \in DOMAIN r |-> IF f \in DOMAIN d THEN d[f] ELSE r[f]]

\* the ApplicationUpdate object built from a JSON body: a key the body omits
\* takes the default None, and so does a key the body carries as null
ParseUpdate(body) == Override(NoPatch, body)

----------------------------------------------------------------------------
(* Rows (models.py).                                                       *)

\* the columns class Offer declares
OfferColumns ==
    {"id", "user_id", "application_id", "company_name", "position", "salary",
     "benefits", "start_date", "deadline", "status", "negotiation_history",
     "created_at", "updated_at"}

\* Offer(**kwargs) on a table model: declared columns take the keyword or
\* the column default; keywords that name no declared column are dropped.
OfferDefaults(t) ==
    [id |-> Null, benefits |-> NullStr, status |-> "pending",
     negotiation_history |-> NullStr, created_at |-> t, updated_at |-> t]

NewOffer(kwargs, t) ==
    [c \in OfferColumns |->
        IF c \in DOMAIN kwargs THEN kwargs[c] ELSE OfferDefaults(t)[c]]

\* the row with the status keyword ignored
NewApplication_Saved(id, u, job_id, status, resume_id, notes, t) ==
    [id |-> id, user_id |-> u, job_id |-> job_id, status |-> "saved",
     applied_date |-> Null, interview_date |-> Null, offer_date |-> Null,
     rejected_date |-> Null, resume_id |-> resume_id,
     rejection_reason |-> NullStr, offer_details |-> NullStr,
     notes |-> notes, created_at |-> t, updated_at |-> t]

\* Application(user_id=, job_id=, status=, resume_id=, notes=)
NewApplication(id, u, job_id, status, resume_id, notes, t) ==
    [id |-> id, user_id |-> u, job_id |-> job_id, status |-> status,
     applied_date |-> Null, interview_date |-> Null, offer_date |-> Null,
     rejected_date |-> Null, resume_id |-> resume_id,
     rejection_reason |-> NullStr, offer_details |-> NullStr,
     notes |-> notes, created_at |-> t, updated_at |-> t]

\* Offer rows of one application
OffersOf(offs, app_id) == {o \in DOMAIN offs : offs[o].application_id = app_id}
InterviewsOf(rows, app_id) == {i \in DOMAIN rows : rows[i].application_id = app_id}
DeadlinesOf(rows, app_id) == {d \in DOMAIN rows : rows[d].application_id = app_id}

\* the query without its user_id condition
AppOwned_AnyUser(u, app_id) == app_id \in DOMAIN applications

\* select(Application).where(id == app_id, user_id == user.id).first()
AppOwned(u, app_id) ==
    app_id \in DOMAIN applications /\ applications[app_id].user_id = u

\* f without the keys in S
Without(f, S) == [k \in DOMAIN f \ S |-> f[k]]
\* f with row r stored under key k
With(f, k, r) == [x \in DOMAIN f \cup {k} |-> IF x = k THEN r ELSE f[x]]

----------------------------------------------------------------------------
(* update_application, lines 86-115: the Application part.                 *)

OldStatus(a) == IF a.status # "" THEN Lower(a.status) ELSE NullStr

\* line 88 without .lower()
NewStatus_Verbatim(a, p) ==
    IF TruthyStr(p.status) THEN p.status ELSE OldStatus(a)

\* line 88
NewStatus(a, p) ==
    IF TruthyStr(p.status) THEN Lower(p.status) ELSE OldStatus(a)

\* lines 91-104 with the patch value written whether it is None or not
ApplyFields_Verbatim(a, p) ==
    [a EXCEPT
       !.status = p.status,
       !.applied_date = p.applied_date,
       !.interview_date = p.interview_date,
       !.rejected_date = p.rejected_date,
       !.rejection_reason = p.rejection_reason,
       !.resume_id = p.resume_id,
       !.notes = p.notes]

\* lines 91-104
ApplyFields(a, p) ==
    [a EXCEPT
       !.status = IF p.status # NullStr THEN NewStatus(a, p) ELSE @,
       !.applied_date = IF p.applied_date # Null THEN p.applied_date ELSE @,
       !.interview_date = IF p.interview_date # Null THEN p.interview_date ELSE @,
       !.rejected_date = IF p.rejected_date # Null THEN p.rejected_date ELSE @,
       !.rejection_reason = IF p.rejection_reason # NullStr THEN p.rejection_reason ELSE @,
       !.resume_id = IF p.resume_id # Null THEN p.resume_id ELSE @,
       !.notes = IF p.notes # NullStr THEN p.notes ELSE @]

\* lines 107-113 without the "and not a.<date>" tests
AutoStamp_Restamp(a, p, t) ==
    IF ~TruthyStr(p.status) THEN a
    ELSE IF Lower(p.status) = "applied" THEN [a EXCEPT !.applied_date = t]
    ELSE IF Lower(p.status) = "interview" THEN [a EXCEPT !.interview_date = t]
    ELSE IF Lower(p.status) = "rejected" THEN [a EXCEPT !.rejected_date = t]
    ELSE a

\* lines 107-113 left out
AutoStamp_Never(a, p, t) == a

\* lines 107-113
AutoStamp(a, p, t) ==
    IF ~TruthyStr(p.status) THEN a
    ELSE IF Lower(p.status) = "applied" /\ ~TruthyDate(a.applied_date)
         THEN [a EXCEPT !.applied_date = t]
    ELSE IF Lower(p.status) = "interview" /\ ~TruthyDate(a.interview_date)
         THEN [a EXCEPT !.interview_date = t]
    ELSE IF Lower(p.status) = "rejected" /\ ~TruthyDate(a.rejected_date)
         THEN [a EXCEPT !.rejected_date = t]
    ELSE a

\* line 115 run only when lines 91-113 changed a column
Touched_OnChange(a, p, t) ==
    LET b == AutoStamp(ApplyFields(a, p), p, t) IN
    IF b = a THEN a ELSE [b EXCEPT !.updated_at = t]

\* the session's copy of the Application when line 115 has run
Touched(a, p, t) == [AutoStamp(ApplyFields(a, p), p, t) EXCEPT !.updated_at = t]

\* the side effect runs whenever the new status is "offer"
IsOfferTransition_NewOnly(a, p) == NewStatus(a, p) = "offer"

\* the side effect runs on every change of status
IsOfferTransition_AnyChange(a, p) == NewStatus(a, p) # OldStatus(a)

\* the side effect runs on every call
IsOfferTransition_Always(a, p) == TRUE

\* the side effect never runs
IsOfferTransition_Never(a, p) == FALSE

\* line 120
IsOfferTransition(a, p) == NewStatus(a, p) = "offer" /\ OldStatus(a) # "offer"

----------------------------------------------------------------------------
(* update_application, lines 138-197: the Offer part.                      *)

\* lines 140-148: offer_benefits is a str in the schema, kept as it is
BenefitsJson(p) == IF TruthyStr(p.offer_benefits) THEN p.offer_benefits ELSE NullStr

\* lines 151-167: the keywords handed to Offer(...)
OfferKwargs(u, app_id, job, p, t) ==
    [user_id |-> u,
     application_id |-> app_id,
     company_name |-> job.company,
     position |-> job.title,
     salary |-> IF TruthyNum(p.offer_salary) THEN p.offer_salary ELSE 0,
     currency |-> IF TruthyStr(p.offer_currency) THEN p.offer_currency ELSE "KES",
     salary_frequency |-> IF TruthyStr(p.offer_salary_frequency)
                          THEN p.offer_salary_frequency ELSE "monthly",
     position_type |-> p.offer_position_type,
     location |-> p.offer_location,
     start_date |-> IF TruthyDate(p.offer_start_date)
                    THEN p.offer_start_date ELSE DateOf(t),
     offer_date |-> DateOf(t),
     deadline |-> IF TruthyDate(p.offer_deadline) THEN p.offer_deadline ELSE t,
     benefits |-> BenefitsJson(p),
     notes |-> p.offer_notes,
     status |-> "pending"]

\* lines 172-195 in order: <<attribute, patch value is truthy, patch value>>
OfferAssignments(p) ==
    << <<"salary", TruthyNum(p.offer_salary), p.offer_salary>>,
       <<"currency", TruthyStr(p.offer_currency), p.offer_currency>>,
       <<"salary_frequency", TruthyStr(p.offer_salary_frequency), p.offer_salary_frequency>>,
       <<"position_type", TruthyStr(p.offer_position_type), p.offer_position_type>>,
       <<"location", TruthyStr(p.offer_location), p.offer_location>>,
       <<"start_date", TruthyDate(p.offer_start_date), p.offer_start_date>>,
       <<"deadline", TruthyDate(p.offer_deadline), p.offer_deadline>>,
       <<"notes", TruthyStr(p.offer_notes), p.offer_notes>>,
       <<"benefits", TruthyStr(p.offer_benefits), p.offer_benefits>> >>

\* setattr on a table model: an attribute that is no declared column raises
\* ValueError ('"Offer" object has no field ...'), which no handler catches
\* (the try/except of lines 189-195 wraps only the declared column benefits)
RECURSIVE SetAttrs(_, _)
SetAttrs(row, as) ==
    IF as = << >> THEN [ok |-> TRUE, row |-> row]
    ELSE LET h == Head(as) IN
         IF ~h[2] THEN SetAttrs(row, Tail(as))
         ELSE IF h[1] \in OfferColumns
              THEN SetAttrs([row EXCEPT ![h[1]] = h[3]], Tail(as))
              ELSE [ok |-> FALSE, row |-> row]

\* lines 172-197
UpdateExistingOffer(o, p, t) ==
    LET r == SetAttrs(o, OfferAssignments(p)) IN
    IF r.ok THEN [ok |-> TRUE, row |-> [r.row EXCEPT !.updated_at = t]]
    ELSE r

\* the lookup of lines 134-136 left out
ExistingOffers_NoLookup(offs, app_id) == {}

\* lines 134-136: select(Offer).where(application_id == app_id).first();
\* without ORDER BY any matching row may be the first
ExistingOffers(offs, app_id) == OffersOf(offs, app_id)

----------------------------------------------------------------------------
(* Handlers.  last records the request that took the latest step and its   *)
(* outcome: "ok", "NotFound" (HTTPException 404) or "InternalError" (an    *)
(* exception no handler catches).                                          *)

Respond(op, u, id, p, result, detail) ==
    last' = [op |-> op, user |-> u, id |-> id, patch |-> p, result |-> result,
             detail |-> detail]

Ok(op, u, id, p) == Respond(op, u, id, p, "ok", "") /\ UNCHANGED reqs

\* the handler raised: nothing was committed
Raise(op, u, id, p, result, detail) ==
    /\ Respond(op, u, id, p, result, detail)
    /\ UNCHANGED <<jobs, resumes, applications, offers, interviews, deadlines,
                   nextId, now, reqs>>

\* constraints the database checks when the Application row is written:
\* status is NOT NULL, resume_id is a foreign key
ApplicationRowValid(a) ==
    /\ a.status # NullStr
    /\ a.resume_id = Null \/ a.resume_id \in DOMAIN resumes

\* a commit that also deletes the Application's Offer rows when the
\* Application ends in another status than "offer"
CommitUpdate_DropOffers(u, app_id, p, a, offs, nid) ==
    IF ~ApplicationRowValid(a)
    THEN Raise("update_application", u, app_id, p, "InternalError",
               "IntegrityError")
    ELSE /\ applications' = [applications EXCEPT ![app_id] = a]
         /\ offers' = IF a.status = "offer" THEN offs
                      ELSE Without(offs, OffersOf(offs, app_id))
         /\ nextId' = nid
         /\ now' = now + 1
         /\ Ok("update_application", u, app_id, p)
         /\ UNCHANGED <<jobs, resumes, interviews, deadlines>>

\* a commit that also sets updated_at on every Offer row of the Application
CommitUpdate_TouchOffers(u, app_id, p, a, offs, nid) ==
    IF ~ApplicationRowValid(a)
    THEN Raise("update_application", u, app_id, p, "InternalError",
               "IntegrityError")
    ELSE /\ applications' = [applications EXCEPT ![app_id] = a]
         /\ offers' = [o \in DOMAIN offs |->
                         IF offs[o].application_id = app_id /\ a.status = "offer"
                         THEN [offs[o] EXCEPT !.updated_at = now]
                         ELSE offs[o]]
         /\ nextId' = nid
         /\ now' = now + 1
         /\ Ok("update_application", u, app_id, p)
         /\ UNCHANGED <<jobs, resumes, interviews, deadlines>>

\* lines 200-201 of update_application: session.add(a); session.commit()
CommitUpdate(u, app_id, p, a, offs, nid) ==
    IF ~ApplicationRowValid(a)
    THEN Raise("update_application", u, app_id, p, "InternalError",
               "IntegrityError")
    ELSE /\ applications' = [applications EXCEPT ![app_id] = a]
         /\ offers' = offs
         /\ nextId' = nid
         /\ now' = now + 1
         /\ Ok("update_application", u, app_id, p)
         /\ UNCHANGED <<jobs, resumes, interviews, deadlines>>

\* update_application(app_id, app_update) called by user u
UpdateApplication(u, app_id, p) ==
    /\ ClockRuns
    /\ IF ~AppOwned(u, app_id)
       THEN Raise("update_application", u, app_id, p, "NotFound",
                  "Application not found")
       ELSE LET a0 == applications[app_id]
                a == Touched(a0, p, now)
            IN  IF ~IsOfferTransition(a0, p)
                THEN CommitUpdate(u, app_id, p, a, offers, nextId)
                ELSE IF a.job_id \notin DOMAIN jobs
                THEN Raise("update_application", u, app_id, p, "NotFound",
                           "Job not found")
                ELSE IF ExistingOffers(offers, app_id) = {}
                THEN LET oid == nextId.offer
                         o == [NewOffer(OfferKwargs(u, app_id, jobs[a.job_id], p, now), now)
                                 EXCEPT !.id = oid]
                     IN  CommitUpdate(u, app_id, p, a, With(offers, oid, o),
                                      [nextId EXCEPT !.offer = oid + 1])
                ELSE \E oid \in ExistingOffers(offers, app_id) :
                       LET r == UpdateExistingOffer(offers[oid], p, now) IN
                       IF r.ok
                       THEN CommitUpdate(u, app_id, p, a,
                                         [offers EXCEPT ![oid] = r.row], nextId)
                       ELSE Raise("update_application", u, app_id, p,
                                  "InternalError", "ValueError")

\* create_application(app_input) called by user u
CreateApplication(u, job_id, status, resume_id, notes) ==
    /\ ClockRuns
    /\ nextId.application <= MaxApps
    /\ LET p == [NoPatch EXCEPT !.status = status, !.resume_id = resume_id,
                                !.notes = notes]
           id == nextId.application
           a == NewApplication(id, u, job_id, Lower(status), resume_id, notes, now)
       IN  IF ~(job_id \in DOMAIN jobs /\ jobs[job_id].user_id = u)
           THEN Raise("create_application", u, job_id, p, "NotFound",
                      "Job not found")
           ELSE IF ~ApplicationRowValid(a)
           THEN Raise("create_application", u, job_id, p, "InternalError",
                      "IntegrityError")
           ELSE /\ applications' = With(applications, id, a)
                /\ nextId' = [nextId EXCEPT !.application = id + 1]
                /\ now' = now + 1
                /\ Ok("create_application", u, id, p)
                /\ UNCHANGED <<jobs, resumes, offers, interviews, deadlines>>

\* delete_application that leaves the Offer rows behind
DeleteApplication_KeepOffers(u, app_id) ==
    IF ~AppOwned(u, app_id)
    THEN Raise("delete_application", u, app_id, NoPatch, "NotFound",
               "Application not found")
    ELSE /\ applications' = Without(applications, {app_id})
         /\ interviews' = Without(interviews, InterviewsOf(interviews, app_id))
         /\ deadlines' = Without(deadlines, DeadlinesOf(deadlines, app_id))
         /\ Ok("delete_application", u, app_id, NoPatch)
         /\ UNCHANGED <<jobs, resumes, offers, nextId, now>>

\* delete_application(app_id): session.delete(a) cascades over the
\* relationships interviews, offers, deadlines (cascade "all, delete-orphan")
DeleteApplication(u, app_id) ==
    IF ~AppOwned(u, app_id)
    THEN Raise("delete_application", u, app_id, NoPatch, "NotFound",
               "Application not found")
    ELSE /\ applications' = Without(applications, {app_id})
         /\ interviews' = Without(interviews, InterviewsOf(interviews, app_id))
         /\ offers' = Without(offers, OffersOf(offers, app_id))
         /\ deadlines' = Without(deadlines, DeadlinesOf(deadlines, app_id))
         /\ Ok("delete_application", u, app_id, NoPatch)
         /\ UNCHANGED <<jobs, resumes, nextId, now>>

\* delete_resume with a delete cascade onto the referencing Applications
DeleteResume_Cascade(u, resume_id) ==
    IF ~(resume_id \in DOMAIN resumes /\ resumes[resume_id].user_id = u)
    THEN Raise("delete_resume", u, resume_id, NoPatch, "NotFound",
               "Resume not found")
    ELSE /\ resumes' = Without(resumes, {resume_id})
         /\ applications' =
              Without(applications,
                      {id \in DOMAIN applications :
                         applications[id].resume_id = resume_id})
         /\ Ok("delete_resume", u, resume_id, NoPatch)
         /\ UNCHANGED <<jobs, offers, interviews, deadlines, nextId, now>>

\* delete_resume(resume_id): the relationship Resume.applications has
\* passive_deletes, the foreign key Application.resume_id is ON DELETE SET NULL
DeleteResume(u, resume_id) ==
    IF ~(resume_id \in DOMAIN resumes /\ resumes[resume_id].user_id = u)
    THEN Raise("delete_resume", u, resume_id, NoPatch, "NotFound",
               "Resume not found")
    ELSE /\ resumes' = Without(resumes, {resume_id})
         /\ applications' =
              [id \in DOMAIN applications |->
                 IF applications[id].resume_id = resume_id
                 THEN [applications[id] EXCEPT !.resume_id = Null]
                 ELSE applications[id]]
         /\ Ok("delete_resume", u, resume_id, NoPatch)
         /\ UNCHANGED <<jobs, offers, interviews, deadlines, nextId, now>>

\* create_interview(interview_in): columns other than the keys play no part
CreateInterview(u, app_id) ==
    /\ nextId.interview <= MaxChildren
    /\ IF ~AppOwned(u, app_id)
       THEN Raise("create_interview", u, app_id, NoPatch, "NotFound",
               "Application not found")
       ELSE LET id == nextId.interview IN
            /\ interviews' = With(interviews, id,
                                  [id |-> id, user_id |-> u, application_id |-> app_id])
            /\ nextId' = [nextId EXCEPT !.interview = id + 1]
            /\ Ok("create_interview", u, id, NoPatch)
            /\ UNCHANGED <<jobs, resumes, applications, offers, deadlines, now>>

\* create_deadline(deadline_in)
CreateDeadline(u, app_id) ==
    /\ nextId.deadline <= MaxChildren
    /\ IF ~AppOwned(u, app_id)
       THEN Raise("create_deadline", u, app_id, NoPatch, "NotFound",
               "Application not found")
       ELSE LET id == nextId.deadline IN
            /\ deadlines' = With(deadlines, id,
                                 [id |-> id, user_id |-> u, application_id |-> app_id])
            /\ nextId' = [nextId EXCEPT !.deadline = id + 1]
            /\ Ok("create_deadline", u, id, NoPatch)
            /\ UNCHANGED <<jobs, resumes, applications, offers, interviews, now>>

\* create_job(job): the columns other than company and title play no part
CreateJob(u, company, title) ==
    /\ nextId.job <= MaxJobs
    /\ LET id == nextId.job IN
       /\ jobs' = With(jobs, id, [id |-> id, user_id |-> u,
                                  company |-> company, title |-> title])
       /\ nextId' = [nextId EXCEPT !.job = id + 1]
       /\ Ok("create_job", u, id, NoPatch)
       /\ UNCHANGED <<resumes, applications, offers, interviews, deadlines, now>>

\* an update_job that also rewrites the Offers made for the Job's Applications
UpdateJob_Propagate(u, job_id, company, title) ==
    IF ~(job_id \in DOMAIN jobs /\ jobs[job_id].user_id = u)
    THEN Raise("update_job", u, job_id, NoPatch, "NotFound", "Job not found")
    ELSE /\ jobs' = [jobs EXCEPT ![job_id].company = company,
                                 ![job_id].title = title]
         /\ offers' = [o \in DOMAIN offers |->
                         IF /\ offers[o].application_id \in DOMAIN applications
                            /\ applications[offers[o].application_id].job_id = job_id
                         THEN [offers[o] EXCEPT !.company_name = company,
                                                !.position = title]
                         ELSE offers[o]]
         /\ Respond("update_job", u, job_id, NoPatch, "ok", "")
         /\ UNCHANGED <<resumes, applications, interviews, deadlines, nextId,
                        now, reqs>>

\* update_job(job_id, job_update) called by user u: JobInput requires title
\* and company; the columns other than company and title play no part
UpdateJob(u, job_id, company, title) ==
    IF ~(job_id \in DOMAIN jobs /\ jobs[job_id].user_id = u)
    THEN Raise("update_job", u, job_id, NoPatch, "NotFound", "Job not found")
    ELSE /\ jobs' = [jobs EXCEPT ![job_id].company = company,
                                 ![job_id].title = title]
         /\ Ok("update_job", u, job_id, NoPatch)
         /\ UNCHANGED <<resumes, applications, offers, interviews, deadlines,
                        nextId, now>>

\* delete_job that deletes the Job row alone
DeleteJob_KeepApplications(u, job_id) ==
    IF ~(job_id \in DOMAIN jobs /\ jobs[job_id].user_id = u)
    THEN Raise("delete_job", u, job_id, NoPatch, "NotFound", "Job not found")
    ELSE /\ jobs' = Without(jobs, {job_id})
         /\ Ok("delete_job", u, job_id, NoPatch)
         /\ UNCHANGED <<resumes, applications, offers, interviews, deadlines,
                        nextId, now>>

\* delete_job(job_id): session.delete(job) cascades over Job.applications
\* (cascade "all, delete-orphan") and from each Application over its
\* interviews, offers and deadlines
DeleteJob(u, job_id) ==
    IF ~(job_id \in DOMAIN jobs /\ jobs[job_id].user_id = u)
    THEN Raise("delete_job", u, job_id, NoPatch, "NotFound", "Job not found")
    ELSE LET apps == {id \in DOMAIN applications :
                        applications[id].job_id = job_id}
         IN  /\ jobs' = Without(jobs, {job_id})
             /\ applications' = Without(applications, apps)
             /\ interviews' = Without(interviews,
                    {i \in DOMAIN interviews : interviews[i].application_id \in apps})
             /\ offers' = Without(offers,
                    {o \in DOMAIN offers : offers[o].application_id \in apps})
             /\ deadlines' = Without(deadlines,
                    {d \in DOMAIN deadlines : deadlines[d].application_id \in apps})
             /\ Ok("delete_job", u, job_id, NoPatch)
             /\ UNCHANGED <<resumes, nextId, now>>

----------------------------------------------------------------------------
(* routes/offers.py.                                                       *)

\* the fields OfferResponse (schemas/offer.py) declares without a default
OfferResponseRequired ==
    {"id", "user_id", "application_id", "company_name", "position", "salary",
     "currency", "salary_frequency", "start_date", "offer_date", "deadline",
     "status", "created_at", "updated_at"}

\* response_model=OfferResponse: the returned Offer object is validated by
\* attribute; a required field the object does not have fails the response
\* (ResponseValidationError, status 500) after the commit
OfferResponds(row) == OfferResponseRequired \subseteq DOMAIN row

\* an OfferCreate body for application app_id
OfferCreateInput(app_id, salary) ==
    [application_id |-> app_id, company_name |-> "Acme",
     position |-> "Engineer", salary |-> salary, currency |-> "KES",
     salary_frequency |-> "monthly", position_type |-> NullStr,
     location |-> NullStr, start_date |-> ClientDate,
     offer_date |-> ClientDate, deadline |-> ClientDate,
     benefits |-> NullStr, notes |-> NullStr, status |-> "pending"]

\* create_offer, lines 98-114: the keywords handed to Offer(...)
CreateOfferKwargs(u, in) ==
    [user_id |-> u,
     application_id |-> in.application_id,
     company_name |-> in.company_name,
     position |-> in.position,
     salary |-> in.salary,
     currency |-> IF TruthyStr(in.currency) THEN in.currency ELSE "KES",
     salary_frequency |-> IF TruthyStr(in.salary_frequency)
                          THEN in.salary_frequency ELSE "monthly",
     position_type |-> in.position_type,
     location |-> in.location,
     start_date |-> in.start_date,
     offer_date |-> in.offer_date,
     deadline |-> in.deadline,
     benefits |-> in.benefits,
     notes |-> in.notes,
     status |-> IF TruthyStr(in.status) THEN in.status ELSE "pending"]

\* the query of create_offer without its user_id condition
OfferAppOwned_AnyUser(u, app_id) == app_id \in DOMAIN applications

\* create_offer, lines 87-95
OfferAppOwned(u, app_id) ==
    app_id \in DOMAIN applications /\ applications[app_id].user_id = u

\* create_offer(offer_in) called by user u
CreateOffer(u, in) ==
    /\ ClockRuns
    /\ IF ~OfferAppOwned(u, in.application_id)
       THEN Raise("create_offer", u, in.application_id, NoPatch, "NotFound",
                  "Application not found")
       ELSE LET oid == nextId.offer
                o == [NewOffer(CreateOfferKwargs(u, in), now) EXCEPT !.id = oid]
            IN  /\ offers' = With(offers, oid, o)
                /\ nextId' = [nextId EXCEPT !.offer = oid + 1]
                /\ now' = now + 1
                /\ IF OfferResponds(o)
                   THEN Respond("create_offer", u, oid, NoPatch, "ok", "")
                   ELSE Respond("create_offer", u, oid, NoPatch,
                                "InternalError", "ResponseValidationError")
                /\ UNCHANGED <<jobs, resumes, applications, interviews,
                               deadlines, reqs>>

\* lines 143-145: setattr for every key of model_dump(exclude_unset=True),
\* in the order of the fields of OfferUpdate
OfferUpdateOrder ==
    <<"company_name", "position", "salary", "currency", "salary_frequency",
      "position_type", "location", "start_date", "offer_date", "deadline",
      "benefits", "notes", "status", "negotiation_history">>

OfferUpdateAssignments(body) ==
    [i \in 1 .. Len(OfferUpdateOrder) |->
       LET k == OfferUpdateOrder[i] IN
       IF k \in DOMAIN body THEN <<k, TRUE, body[k]>> ELSE <<k, FALSE, Null>>]

\* update_offer(offer_id, offer_in) called by user u
UpdateOffer(u, offer_id, body) ==
    /\ ClockRuns
    /\ IF ~(offer_id \in DOMAIN offers /\ offers[offer_id].user_id = u)
       THEN Raise("update_offer", u, offer_id, NoPatch, "NotFound",
                  "Offer not found")
       ELSE LET r == SetAttrs(offers[offer_id], OfferUpdateAssignments(body)) IN
            IF ~r.ok
            THEN Raise("update_offer", u, offer_id, NoPatch, "InternalError",
                       "ValueError")
            ELSE LET o == [r.row EXCEPT !.updated_at = now] IN
                 /\ offers' = [offers EXCEPT ![offer_id] = o]
                 /\ now' = now + 1
                 /\ IF OfferResponds(o)
                    THEN Respond("update_offer", u, offer_id, NoPatch, "ok", "")
                    ELSE Respond("update_offer", u, offer_id, NoPatch,
                                 "InternalError", "ResponseValidationError")
                 /\ UNCHANGED <<jobs, resumes, applications, interviews,
                                deadlines, nextId, reqs>>

\* get_offer(offer_id) called by user u: a read, nothing is written
GetOffer(u, offer_id) ==
    /\ IF ~(offer_id \in DOMAIN offers /\ offers[offer_id].user_id = u)
       THEN Respond("get_offer", u, offer_id, NoPatch, "NotFound",
                    "Offer not found")
       ELSE IF OfferResponds(offers[offer_id])
       THEN Respond("get_offer", u, offer_id, NoPatch, "ok", "")
       ELSE Respond("get_offer", u, offer_id, NoPatch, "InternalError",
                    "ResponseValidationError")
    /\ UNCHANGED <<jobs, resumes, applications, offers, interviews,
                   deadlines, nextId, now, reqs>>

\* delete_offer(offer_id) called by user u
DeleteOffer(u, offer_id) ==
    IF ~(offer_id \in DOMAIN offers /\ offers[offer_id].user_id = u)
    THEN Raise("delete_offer", u, offer_id, NoPatch, "NotFound",
               "Offer not found")
    ELSE /\ offers' = Without(offers, {offer_id})
         /\ Ok("delete_offer", u, offer_id, NoPatch)
         /\ UNCHANGED <<jobs, resumes, applications, interviews, deadlines,
                        nextId, now>>

----------------------------------------------------------------------------
(* update_application statement by statement, for requests that overlap.   *)
(* Each request has its own Session: a query reads the rows committed when *)
(* it runs, the changes made to the loaded objects stay in the session,    *)
(* and session.commit() writes the changed columns; a request that raises  *)
(* closes its session without writing.                                     *)

Slots == 1 .. MaxReqs

NoRow == [id |-> Null]

IdleReq ==
    [pc |-> "idle", user |-> Null, id |-> Null, patch |-> NoPatch, t |-> Null,
     loaded |-> NoRow, a |-> NoRow, job |-> NoRow,
     offer_kind |-> "none", offer_loaded |-> NoRow, offer |-> NoRow]

\* the UPDATE of a flush: the columns whose value the session changed
Merge(current, loaded, new) ==
    [c \in DOMAIN current |-> IF new[c] # loaded[c] THEN new[c] ELSE current[c]]

Finish(r, result, detail) ==
    /\ reqs' = [reqs EXCEPT ![r] = IdleReq]
    /\ Respond("update_application", reqs[r].user, reqs[r].id, reqs[r].patch,
               result, detail)

\* the request raised: the session is closed without a commit
Abort(r, result, detail) ==
    /\ Finish(r, result, detail)
    /\ UNCHANGED <<tables, nextId, now>>

\* a request arrives
TxBegin(r, u, app_id, p) ==
    /\ reqs[r].pc = "idle"
    /\ ClockRuns
    /\ reqs' = [reqs EXCEPT ![r] = [IdleReq EXCEPT !.pc = "load", !.user = u,
                                                   !.id = app_id, !.patch = p]]
    /\ UNCHANGED <<tables, nextId, now, last>>

\* the changes of lines 91-115 written to the table as they are made
TxLoad_WriteThrough(r) ==
    LET q == reqs[r] IN
    /\ q.pc = "load"
    /\ IF ~AppOwned(q.user, q.id)
       THEN Abort(r, "NotFound", "Application not found")
       ELSE LET a0 == applications[q.id] IN
            /\ reqs' = [reqs EXCEPT ![r] =
                          [q EXCEPT !.pc = IF IsOfferTransition(a0, q.patch)
                                           THEN "job" ELSE "commit",
                                    !.t = now,
                                    !.loaded = a0,
                                    !.a = Touched(a0, q.patch, now)]]
            /\ applications' =
                 [applications EXCEPT ![q.id] = Touched(a0, q.patch, now)]
            /\ now' = now + 1
            /\ UNCHANGED <<jobs, resumes, offers, interviews, deadlines,
                           nextId, last>>

\* the Application loaded and left as it is until the checks are through
TxLoad_ChecksFirst(r) ==
    LET q == reqs[r] IN
    /\ q.pc = "load"
    /\ IF ~AppOwned(q.user, q.id)
       THEN Abort(r, "NotFound", "Application not found")
       ELSE LET a0 == applications[q.id] IN
            /\ reqs' = [reqs EXCEPT ![r] =
                          [q EXCEPT !.pc = IF IsOfferTransition(a0, q.patch)
                                           THEN "job" ELSE "commit",
                                    !.t = now,
                                    !.loaded = a0,
                                    !.a = a0]]
            /\ now' = now + 1
            /\ UNCHANGED <<tables, nextId, last>>

\* lines 82-120: load the Application, change the loaded object
TxLoad(r) ==
    LET q == reqs[r] IN
    /\ q.pc = "load"
    /\ IF ~AppOwned(q.user, q.id)
       THEN Abort(r, "NotFound", "Application not found")
       ELSE LET a0 == applications[q.id] IN
            /\ reqs' = [reqs EXCEPT ![r] =
                          [q EXCEPT !.pc = IF IsOfferTransition(a0, q.patch)
                                           THEN "job" ELSE "commit",
                                    !.t = now,
                                    !.loaded = a0,
                                    !.a = Touched(a0, q.patch, now)]]
            /\ now' = now + 1
            /\ UNCHANGED <<tables, nextId, last>>

\* lines 129-131: look the Job up
TxJob(r) ==
    LET q == reqs[r] IN
    /\ q.pc = "job"
    /\ IF q.a.job_id \notin DOMAIN jobs
       THEN Abort(r, "NotFound", "Job not found")
       ELSE /\ reqs' = [reqs EXCEPT ![r] = [q EXCEPT !.pc = "offer",
                                                     !.job = jobs[q.a.job_id]]]
            /\ UNCHANGED <<tables, nextId, now, last>>

\* lines 134-197: look the Offer up, build a new one or change the one found
TxOffer(r) ==
    LET q == reqs[r] IN
    /\ q.pc = "offer"
    /\ IF ExistingOffers(offers, q.id) = {}
       THEN /\ reqs' = [reqs EXCEPT ![r] =
                          [q EXCEPT !.pc = "commit", !.offer_kind = "insert",
                                    !.offer = NewOffer(OfferKwargs(q.user, q.id,
                                                  q.job, q.patch, q.t), q.t)]]
            /\ UNCHANGED <<tables, nextId, now, last>>
       ELSE \E oid \in ExistingOffers(offers, q.id) :
              LET res == UpdateExistingOffer(offers[oid], q.patch, q.t) IN
              IF res.ok
              THEN /\ reqs' = [reqs EXCEPT ![r] =
                                 [q EXCEPT !.pc = "commit", !.offer_kind = "update",
                                           !.offer_loaded = offers[oid],
                                           !.offer = res.row]]
                   /\ UNCHANGED <<tables, nextId, now, last>>
              ELSE Abort(r, "InternalError", "ValueError")

\* a commit under a unique constraint on Offer.application_id: the INSERT of
\* a second Offer row for the Application raises IntegrityError
TxCommit_Unique(r) ==
    LET q == reqs[r] IN
    /\ q.pc = "commit"
    /\ IF q.id \notin DOMAIN applications
       THEN Abort(r, "InternalError", "StaleDataError")
       ELSE IF q.offer_kind = "update" /\ q.offer.id \notin DOMAIN offers
       THEN Abort(r, "InternalError", "StaleDataError")
       ELSE IF ~ApplicationRowValid(q.a)
       THEN Abort(r, "InternalError", "IntegrityError")
       ELSE IF q.offer_kind = "insert" /\ OffersOf(offers, q.id) # {}
       THEN Abort(r, "InternalError", "IntegrityError")
       ELSE /\ applications' =
                 [applications EXCEPT ![q.id] = Merge(@, q.loaded, q.a)]
            /\ IF q.offer_kind = "insert"
               THEN /\ offers' = With(offers, nextId.offer,
                                      [q.offer EXCEPT !.id = nextId.offer])
                    /\ nextId' = [nextId EXCEPT !.offer = @ + 1]
               ELSE IF q.offer_kind = "update"
               THEN /\ offers' = [offers EXCEPT ![q.offer.id] =
                                     Merge(@, q.offer_loaded, q.offer)]
                    /\ UNCHANGED nextId
               ELSE UNCHANGED <<offers, nextId>>
            /\ Finish(r, "ok", "")
            /\ UNCHANGED <<jobs, resumes, interviews, deadlines, now>>

\* lines 200-201: the flush writes the changed rows, then the transaction
\* commits; an UPDATE that finds its row gone raises StaleDataError
TxCommit(r) ==
    LET q == reqs[r] IN
    /\ q.pc = "commit"
    /\ IF q.id \notin DOMAIN applications
       THEN Abort(r, "InternalError", "StaleDataError")
       ELSE IF q.offer_kind = "update" /\ q.offer.id \notin DOMAIN offers
       THEN Abort(r, "InternalError", "StaleDataError")
       ELSE IF ~ApplicationRowValid(q.a)
       THEN Abort(r, "InternalError", "IntegrityError")
       ELSE /\ applications' =
                 [applications EXCEPT ![q.id] = Merge(@, q.loaded, q.a)]
            /\ IF q.offer_kind = "insert"
               THEN /\ offers' = With(offers, nextId.offer,
                                      [q.offer EXCEPT !.id = nextId.offer])
                    /\ nextId' = [nextId EXCEPT !.offer = @ + 1]
               ELSE IF q.offer_kind = "update"
               THEN /\ offers' = [offers EXCEPT ![q.offer.id] =
                                     Merge(@, q.offer_loaded, q.offer)]
                    /\ UNCHANGED nextId
               ELSE UNCHANGED <<offers, nextId>>
            /\ Finish(r, "ok", "")
            /\ UNCHANGED <<jobs, resumes, interviews, deadlines, now>>

----------------------------------------------------------------------------
(* create_offer statement by statement, in a request slot of its own.      *)

\* offers.py lines 87-114: look the Application up, build the Offer object
TxCreateOfferCheck(r, u, in) ==
    /\ reqs[r].pc = "idle"
    /\ ClockRuns
    /\ IF ~OfferAppOwned(u, in.application_id)
       THEN Raise("create_offer", u, in.application_id, NoPatch, "NotFound",
                  "Application not found")
       ELSE /\ reqs' = [reqs EXCEPT ![r] =
                          [IdleReq EXCEPT !.pc = "insert", !.user = u,
                                          !.id = in.application_id, !.t = now,
                                          !.offer_kind = "insert",
                                          !.offer = NewOffer(CreateOfferKwargs(u, in), now)]]
            /\ now' = now + 1
            /\ UNCHANGED <<tables, nextId, last>>

\* an INSERT that the database accepts without looking at application_id
TxCreateOfferCommit_NoForeignKey(r) ==
    LET q == reqs[r]
        oid == nextId.offer
        o == [q.offer EXCEPT !.id = oid]
    IN  /\ q.pc = "insert"
        /\ offers' = With(offers, oid, o)
        /\ nextId' = [nextId EXCEPT !.offer = oid + 1]
        /\ reqs' = [reqs EXCEPT ![r] = IdleReq]
        /\ IF OfferResponds(o)
           THEN Respond("create_offer", q.user, oid, NoPatch, "ok", "")
           ELSE Respond("create_offer", q.user, oid, NoPatch,
                        "InternalError", "ResponseValidationError")
        /\ UNCHANGED <<jobs, resumes, applications, interviews, deadlines, now>>

\* offers.py lines 116-120: the INSERT of the commit checks the foreign key
\* Offer.application_id (models.py 258-262) and raises IntegrityError when
\* the Application is gone; then the response is validated
TxCreateOfferCommit(r) ==
    LET q == reqs[r]
        oid == nextId.offer
        o == [q.offer EXCEPT !.id = oid]
    IN  /\ q.pc = "insert"
        /\ IF q.id \notin DOMAIN applications
           THEN /\ reqs' = [reqs EXCEPT ![r] = IdleReq]
                /\ Respond("create_offer", q.user, q.id, NoPatch,
                           "InternalError", "IntegrityError")
                /\ UNCHANGED <<tables, nextId, now>>
           ELSE /\ offers' = With(offers, oid, o)
                /\ nextId' = [nextId EXCEPT !.offer = oid + 1]
                /\ reqs' = [reqs EXCEPT ![r] = IdleReq]
                /\ IF OfferResponds(o)
                   THEN Respond("create_offer", q.user, oid, NoPatch, "ok", "")
                   ELSE Respond("create_offer", q.user, oid, NoPatch,
                                "InternalError", "ResponseValidationError")
                /\ UNCHANGED <<jobs, resumes, applications, interviews,
                               deadlines, now>>

----------------------------------------------------------------------------
(* The database the runs start from: each of the two users has saved one   *)
(* job, user 1 has uploaded a resume and created application 1 from it     *)
(* (create_job, upload_resume, create_application before StartTime).         *)

Init ==
    /\ jobs = (1 :> [id |-> 1, user_id |-> 1, company |-> "Acme", title |-> "Engineer"])
           @@ (2 :> [id |-> 2, user_id |-> 2, company |-> "Globex", title |-> "Analyst"])
    /\ resumes = (1 :> [id |-> 1, user_id |-> 1])
    /\ applications = (1 :> NewApplication(1, 1, 1, Lower("Saved"), 1, NullStr, StartTime - 1))
    /\ offers = << >>
    /\ interviews = << >>
    /\ deadlines = << >>
    /\ nextId = [job |-> 3, application |-> 2, offer |-> 1, interview |-> 1,
                 deadline |-> 1]
    /\ now = StartTime
    /\ last = [op |-> "init", user |-> Null, id |-> Null, patch |-> NoPatch,
               result |-> "ok", detail |-> ""]
    /\ reqs = [r \in Slots |-> IdleReq]

----------------------------------------------------------------------------
(* Requests of the offer lifecycle: the owner patches application 1 with a *)
(* status and offer details.                                               *)

OfferDetailInputs ==
    { [offer_salary |-> Null],
      [offer_salary |-> 150000, offer_currency |-> "USD"],
      [offer_salary |-> 0],
      [offer_benefits |-> "[\"Health insurance\"]"],
      [offer_salary |-> 200000, offer_start_date |-> ClientDate,
       offer_deadline |-> ClientDate, offer_benefits |-> "[\"Lunch\"]"],
      [offer_salary_frequency |-> "annual", offer_position_type |-> "Full-time",
       offer_location |-> "Remote", offer_notes |-> "call back"] }

OfferStatusInputs == {NullStr, "offer", "rejected", "applied"}

OfferPatches ==
    { Override([NoPatch EXCEPT !.status = s], d) :
        s \in OfferStatusInputs, d \in OfferDetailInputs }

Next ==
    \E p \in OfferPatches : UpdateApplication(1, 1, p)

Spec == Init /\ [][Next]_vars

(* Requests of the lifecycle dates: the owner patches application 1 with a *)
(* status and at most one of the three dates.                              *)

DateStatusInputs ==
    {NullStr, "saved", "applied", "interview", "offer", "rejected"}

DateInputs ==
    { [applied_date |-> Null],
      [applied_date |-> ClientDate],
      [interview_date |-> ClientDate],
      [rejected_date |-> ClientDate] }

DatePatches ==
    { Override([NoPatch EXCEPT !.status = s], d) :
        s \in DateStatusInputs, d \in DateInputs }

NextDates ==
    \E p \in DatePatches : UpdateApplication(1, 1, p)

SpecDates == Init /\ [][NextDates]_vars

(* Requests of both users on every application id, existing or not.        *)

AppIds == 1 .. (MaxApps + 1)

OwnerPatches ==
    { NoPatch,
      [NoPatch EXCEPT !.status = "applied"],
      [NoPatch EXCEPT !.status = "offer", !.offer_salary = 150000],
      [NoPatch EXCEPT !.status = "rejected", !.rejection_reason = "no fit"],
      [NoPatch EXCEPT !.notes = "hello", !.applied_date = ClientDate] }

NextOwner ==
    \/ \E u \in Users, id \in AppIds, p \in OwnerPatches :
          UpdateApplication(u, id, p)
    \/ \E u \in Users, j \in DOMAIN jobs :
          CreateApplication(u, j, "Saved", Null, NullStr)

SpecOwner == Init /\ [][NextOwner]_vars

(* Requests of user 1 that build and delete the rows hanging off the       *)
(* Applications.                                                           *)

NextDelete ==
    \/ CreateApplication(1, 1, "Saved", 1, NullStr)
    \/ \E id \in DOMAIN applications :
          UpdateApplication(1, id, [NoPatch EXCEPT !.status = "offer"])
    \/ \E id \in DOMAIN applications : CreateInterview(1, id)
    \/ \E id \in DOMAIN applications : CreateDeadline(1, id)
    \/ \E id \in DOMAIN applications : DeleteApplication(1, id)

SpecDelete == Init /\ [][NextDelete]_vars

(* Requests of both users that create Applications with and without a      *)
(* Resume, patch them and delete Resumes.                                  *)

ResumePatches ==
    { [NoPatch EXCEPT !.status = "offer"],
      [NoPatch EXCEPT !.notes = "sent", !.resume_id = 1] }

NextResume ==
    \/ \E u \in Users, j \in DOMAIN jobs, r \in {Null, 1} :
          CreateApplication(u, j, "Saved", r, NullStr)
    \/ \E id \in DOMAIN applications, p \in ResumePatches :
          UpdateApplication(applications[id].user_id, id, p)
    \/ \E u \in Users, r \in {1, 2} : DeleteResume(u, r)

SpecResume == Init /\ [][NextResume]_vars

(* Overlapping update_application requests of user 1 on application 1,     *)
(* and the deletion of its Job.                                            *)

TxPatches ==
    { [NoPatch EXCEPT !.status = "offer", !.offer_salary = 150000],
      [NoPatch EXCEPT !.status = "applied"] }

NextTx ==
    \/ \E r \in Slots, p \in TxPatches : TxBegin(r, 1, 1, p)
    \/ \E r \in Slots : TxLoad(r)
    \/ \E r \in Slots : TxJob(r)
    \/ \E r \in Slots : TxOffer(r)
    \/ \E r \in Slots : TxCommit(r)
    \/ DeleteJob(1, 1)

SpecTx == Init /\ [][NextTx]_vars

(* Requests of both users that create Applications with a status of the    *)
(* client's choosing and patch the status of their own Applications.       *)

\* ApplicationInput.status is a str (default "Saved"), ApplicationUpdate.status
\* an Optional[str]: no validator restricts the spelling
CreateStatusInputs == {"Saved", "Applied", "Offer", "On Hold"}

StatusPatches ==
    { NoPatch,
      [NoPatch EXCEPT !.notes = "called"],
      [NoPatch EXCEPT !.status = ""],
      [NoPatch EXCEPT !.status = "Applied"],
      [NoPatch EXCEPT !.status = "interview"],
      [NoPatch EXCEPT !.status = "Offer"],
      [NoPatch EXCEPT !.status = "OFFER", !.offer_salary = 150000],
      [NoPatch EXCEPT !.status = "Rejected", !.rejected_date = ClientDate] }

NextStatus ==
    \/ \E j \in DOMAIN jobs, s \in CreateStatusInputs :
          CreateApplication(jobs[j].user_id, j, s, Null, NullStr)
    \/ \E id \in DOMAIN applications, p \in StatusPatches :
          UpdateApplication(applications[id].user_id, id, p)

SpecStatus == Init /\ [][NextStatus]_vars

(* Requests of the owner on application 1 given as JSON bodies: a body     *)
(* carries some of the scalar keys, with a value or with null.             *)

PatchBodies ==
    { << >>,
      [notes |-> "phoned", rejection_reason |-> "no fit"],
      [notes |-> NullStr],
      [rejection_reason |-> NullStr, resume_id |-> Null],
      [status |-> "rejected", applied_date |-> ClientDate],
      [status |-> "applied", applied_date |-> Null, rejected_date |-> Null],
      [status |-> NullStr, interview_date |-> ClientDate],
      [status |-> "interview", notes |-> NullStr],
      [notes |-> "mailed", resume_id |-> Null] }

NextPatch ==
    \E body \in PatchBodies : UpdateApplication(1, 1, ParseUpdate(body))

SpecPatch == Init /\ [][NextPatch]_vars

(* Requests of both users that create Jobs, create Applications on every   *)
(* job id, existing or not, owned or not, patch and delete their own       *)
(* Applications and delete their own Jobs.                                 *)

JobIds == 1 .. MaxJobs

JobPatches ==
    { [NoPatch EXCEPT !.status = "offer"],
      [NoPatch EXCEPT !.status = "applied", !.notes = "sent"] }

NextJobs ==
    \/ \E u \in Users : CreateJob(u, "Initech", "Manager")
    \/ \E j \in DOMAIN jobs : DeleteJob(jobs[j].user_id, j)
    \/ \E u \in Users, j \in JobIds :
          CreateApplication(u, j, "Saved", Null, NullStr)
    \/ \E id \in DOMAIN applications, p \in JobPatches :
          UpdateApplication(applications[id].user_id, id, p)
    \/ \E id \in DOMAIN applications :
          DeleteApplication(applications[id].user_id, id)

SpecJobs == Init /\ [][NextJobs]_vars

(* Requests of both users on Offers: made by create_offer on every          *)
(* application id and by the side effect of update_application, changed,   *)
(* deleted one by one and deleted with their Application or its Job.       *)

OfferLifePatches ==
    { [NoPatch EXCEPT !.status = "offer", !.offer_salary = 150000],
      [NoPatch EXCEPT !.status = "rejected"] }

OfferUpdateBodies ==
    { [salary |-> 175000, status |-> "accepted"],
      [currency |-> "USD"] }

NextOffers ==
    \/ \E j \in DOMAIN jobs :
          CreateApplication(jobs[j].user_id, j, "Saved", Null, NullStr)
    \/ \E id \in DOMAIN applications, p \in OfferLifePatches :
          UpdateApplication(applications[id].user_id, id, p)
    \/ \E u \in Users, id \in AppIds :
          CreateOffer(u, OfferCreateInput(id, 120000))
    \/ \E o \in DOMAIN offers, body \in OfferUpdateBodies :
          UpdateOffer(offers[o].user_id, o, body)
    \/ \E u \in Users, o \in DOMAIN offers : DeleteOffer(u, o)
    \/ \E id \in DOMAIN applications :
          DeleteApplication(applications[id].user_id, id)
    \/ \E j \in DOMAIN jobs : DeleteJob(jobs[j].user_id, j)

SpecOffers == Init /\ [][NextOffers]_vars

(* Requests of user 1 that create Applications in status "saved" or        *)
(* "offer", move them into and out of "offer", and make and delete Offers  *)
(* directly.                                                               *)

NextOfferStatus ==
    \/ \E s \in {"Saved", "Offer"} : CreateApplication(1, 1, s, Null, NullStr)
    \/ \E id \in DOMAIN applications, p \in OfferLifePatches :
          UpdateApplication(1, id, p)
    \/ \E id \in DOMAIN applications :
          CreateOffer(1, OfferCreateInput(id, 120000))
    \/ \E o \in DOMAIN offers : DeleteOffer(1, o)

SpecOfferStatus == Init /\ [][NextOfferStatus]_vars

(* Overlapping requests of user 1 on application 1: transitions into       *)
(* "offer" and create_offer calls, statement by statement, against the     *)
(* deletion of the Application and of its Job.                             *)

NextRace ==
    \/ \E r \in Slots :
          TxBegin(r, 1, 1, [NoPatch EXCEPT !.status = "offer"])
    \/ \E r \in Slots : TxLoad(r)
    \/ \E r \in Slots : TxJob(r)
    \/ \E r \in Slots : TxOffer(r)
    \/ \E r \in Slots : TxCommit(r)
    \/ \E r \in Slots : TxCreateOfferCheck(r, 1, OfferCreateInput(1, 120000))
    \/ \E r \in Slots : TxCreateOfferCommit(r)
    \/ DeleteApplication(1, 1)
    \/ DeleteJob(1, 1)

SpecRace == Init /\ [][NextRace]_vars

(* Requests that rename the Jobs while the owner takes application 1 into  *)
(* "offer", out of it and into it again.                                   *)

JobNames == { <<"Initech", "Manager">>, <<"Acme", "Lead Engineer">> }

NextCopy ==
    \/ \E u \in Users, j \in DOMAIN jobs, n \in JobNames :
          UpdateJob(u, j, n[1], n[2])
    \/ \E p \in OfferLifePatches : UpdateApplication(1, 1, p)

SpecCopy == Init /\ [][NextCopy]_vars

(* Requests of both users on the Offers of application 1, by every offer   *)
(* id, existing or not, owned or not.                                      *)

OfferIds == 1 .. MaxCalls

OfferStoreBodies ==
    { [salary |-> 175000, status |-> "accepted"],
      [currency |-> "USD"],
      [benefits |-> "[\"Lunch\"]", negotiation_history |-> "[]"] }

NextOfferStore ==
    \/ CreateOffer(1, OfferCreateInput(1, 120000))
    \/ UpdateApplication(1, 1, [NoPatch EXCEPT !.status = "offer"])
    \/ \E u \in Users, o \in OfferIds : GetOffer(u, o)
    \/ \E u \in Users, o \in OfferIds, body \in OfferStoreBodies :
          UpdateOffer(u, o, body)
    \/ \E u \in Users, o \in OfferIds : DeleteOffer(u, o)

SpecOfferStore == Init /\ [][NextOfferStore]_vars

(* Requests of user 2 on the rows of either user, in every table, next to  *)
(* deletions by user 1 of its own rows.                                    *)

ScopePatches ==
    { [NoPatch EXCEPT !.resume_id = 1] }

\* the users whose call on a row of user owner the runs contain
Callers(owner) == {owner, 2}

NextScope ==
    \/ \E j \in DOMAIN jobs : CreateApplication(2, j, "Saved", 1, NullStr)
    \/ \E id \in DOMAIN applications, p \in ScopePatches :
          UpdateApplication(2, id, p)
    \/ \E id \in DOMAIN applications :
          \E u \in Callers(applications[id].user_id) :
             DeleteApplication(u, id)
    \/ \E j \in DOMAIN jobs : DeleteJob(2, j)
    \/ \E r \in DOMAIN resumes : \E u \in Callers(resumes[r].user_id) :
          DeleteResume(u, r)
    \/ \E id \in DOMAIN applications :
          CreateOffer(2, OfferCreateInput(id, 120000))
    \/ \E o \in DOMAIN offers : GetOffer(1, o)
    \/ \E o \in DOMAIN offers : \E u \in Callers(offers[o].user_id) :
          DeleteOffer(u, o)
    \/ \E id \in DOMAIN applications : CreateInterview(2, id)
    \/ \E id \in DOMAIN applications :
          applications[id].user_id = 1 /\ CreateDeadline(2, id)

SpecScope == Init /\ [][NextScope]_vars

----------------------------------------------------------------------------
(* Observations used by the properties.                                    *)

\* the step just taken was a call of update_application on application id
UpdateStep(id) == last'.op = "update_application" /\ last'.id = id

NumOffers(offs, id) == Cardinality(OffersOf(offs, id))

\* the patch field that carries each offer detail
DetailField ==
    [salary |-> "offer_salary", currency |-> "offer_currency",
     salary_frequency |-> "offer_salary_frequency",
     position_type |-> "offer_position_type", location |-> "offer_location",
     start_date |-> "offer_start_date", deadline |-> "offer_deadline",
     benefits |-> "offer_benefits", notes |-> "offer_notes"]

\* the patch carries a value (not None) in field f
Supplied(p, f) == p[f] # NoPatch[f]

----------------------------------------------------------------------------
(* C1 *)

\* C1: in a run of update_application calls on an Application that starts
\* without an Offer row, the first transition from a non-offer status into
\* "offer" leaves exactly one Offer row for the application, and no later
\* call changes that number: it is never above 1, and once 1 it stays 1.
C1_OneOfferPerApplication ==
    [][\A id \in DOMAIN applications :
         /\ NumOffers(offers, id) <= 1
         /\ (/\ UpdateStep(id)
             /\ last'.result = "ok"
             /\ applications[id].status # "offer"
             /\ applications'[id].status = "offer")
            => NumOffers(offers', id) = 1
         /\ NumOffers(offers, id) = 1 => NumOffers(offers', id) = 1]_vars

\* a second transition into "offer" has updated the row the first one made
C1_Witness ==
    /\ applications[1].status = "offer"
    /\ last.op = "update_application" /\ last.result = "ok"
    /\ NumOffers(offers, 1) = 1
    /\ \E o \in OffersOf(offers, 1) : offers[o].updated_at > offers[o].created_at

----------------------------------------------------------------------------
(* C3 *)

\* C3: a call of update_application on an Application in status "offer"
\* whose patch sets another status changes no Offer row: every row is still
\* there and equal in every column, updated_at included.
C3_LeavingOfferKeepsOffers ==
    [][\A id \in DOMAIN applications :
         (/\ UpdateStep(id)
          /\ OldStatus(applications[id]) = "offer"
          /\ TruthyStr(last'.patch.status)
          /\ Lower(last'.patch.status) # "offer")
         => offers' = offers]_vars

\* the Offer made two calls ago is there after the move to "rejected"
C3_Witness ==
    /\ last.op = "update_application" /\ last.result = "ok"
    /\ last.patch.status = "rejected"
    /\ applications[1].status = "rejected"
    /\ applications[1].rejected_date = now - 1
    /\ \E o \in OffersOf(offers, 1) : offers[o].created_at = now - 2

----------------------------------------------------------------------------
(* C8 *)

\* the value C8 expects in detail column c of an Offer created at time t
C8Expected(c, p, t) ==
    IF Supplied(p, DetailField[c]) THEN p[DetailField[c]]
    ELSE CASE c = "salary" -> 0
           [] c = "currency" -> "KES"
           [] c = "salary_frequency" -> "monthly"
           [] c = "start_date" -> DateOf(t)
           [] c = "deadline" -> t
           [] OTHER -> NullStr

\* C8: when a transition into "offer" finds no Offer, the stored Offer row
\* has company_name and position from the Job, every detail column (salary,
\* currency, salary_frequency, position_type, location, start_date, deadline,
\* benefits, notes) equal to the patch value or its default, offer_date the
\* current date and status "pending".
C8_CreatedOfferFields ==
    [][\A id \in DOMAIN applications :
         (/\ UpdateStep(id)
          /\ last'.result = "ok"
          /\ IsOfferTransition(applications[id], last'.patch)
          /\ OffersOf(offers, id) = {})
         => \E o \in OffersOf(offers', id) :
              LET row == offers'[o]
                  job == jobs[applications[id].job_id]
              IN  /\ row.company_name = job.company
                  /\ row.position = job.title
                  /\ row.status = "pending"
                  /\ \A c \in DOMAIN DetailField :
                       /\ c \in DOMAIN row
                       /\ row[c] = C8Expected(c, last'.patch, now)
                  /\ "offer_date" \in DOMAIN row
                  /\ row["offer_date"] = DateOf(now)]_vars

----------------------------------------------------------------------------
(* C9 *)

\* C9: when a transition into "offer" finds an Offer, the call writes onto
\* that row exactly the detail fields the patch carries (a salary of 0
\* included), keeps every other column and sets updated_at to the current
\* time.
C9_ExistingOfferPatched ==
    [][\A id \in DOMAIN applications :
         (/\ UpdateStep(id)
          /\ IsOfferTransition(applications[id], last'.patch)
          /\ OffersOf(offers, id) # {})
         => \E o \in OffersOf(offers, id) :
              /\ o \in DOMAIN offers'
              /\ \A c \in DOMAIN DetailField :
                   IF Supplied(last'.patch, DetailField[c])
                   THEN c \in DOMAIN offers'[o]
                        /\ offers'[o][c] = last'.patch[DetailField[c]]
                   ELSE c \in DOMAIN offers[o] => offers'[o][c] = offers[o][c]
              /\ \A c \in OfferColumns \ (DOMAIN DetailField \cup {"updated_at"}) :
                   offers'[o][c] = offers[o][c]
              /\ offers'[o].updated_at = now
              /\ \A x \in DOMAIN offers \ {o} : offers'[x] = offers[x]]_vars

----------------------------------------------------------------------------
(* C10 *)

\* the patch carries offer_benefits and nothing else
OnlyBenefits(p) == p = [NoPatch EXCEPT !.offer_benefits = p.offer_benefits]
                   /\ Supplied(p, "offer_benefits")

\* the case of C10: a benefits-only patch on an Application in status
\* "offer" that has an Offer
C10Case(id) ==
    /\ UpdateStep(id)
    /\ OnlyBenefits(last'.patch)
    /\ applications[id].status = "offer"
    /\ OffersOf(offers, id) # {}

\* C10 as stated: the call writes the patch's benefits onto the existing
\* Offer, creates no Offer row and leaves Application.status as it was.
C10_Original ==
    [][\A id \in DOMAIN applications :
         C10Case(id)
         => /\ \E o \in OffersOf(offers, id) :
                 offers'[o].benefits = last'.patch.offer_benefits
            /\ DOMAIN offers' = DOMAIN offers
            /\ applications'[id].status = applications[id].status]_vars

\* C10 (amended): a benefits-only patch on an Application already in status
\* "offer" succeeds, leaves every Offer row as it was (benefits are not
\* written: the Offer side effect runs only on a transition into "offer"),
\* creates no Offer row and leaves Application.status as it was.
C10_BenefitsOnlyPatchKeepsOffer ==
    [][\A id \in DOMAIN applications :
         C10Case(id)
         => /\ last'.result = "ok"
            /\ offers' = offers
            /\ applications'[id].status = applications[id].status]_vars

\* such a call has returned, and the Offer holds other benefits than sent
C10_Witness ==
    /\ last.op = "update_application" /\ last.result = "ok"
    /\ OnlyBenefits(last.patch)
    /\ applications[1].status = "offer"
    /\ applications[1].updated_at = now - 1
    /\ \E o \in OffersOf(offers, 1) :
         /\ offers[o].updated_at < now - 1
         /\ offers[o].benefits # last.patch.offer_benefits

----------------------------------------------------------------------------
(* C2 *)

DateFields == {"applied_date", "interview_date", "rejected_date"}

\* C2: once applied_date (interview_date, rejected_date) of an Application
\* is set, a call of update_application whose patch does not carry that
\* field leaves it as it was, whatever status the patch carries.
C2_DatesWriteOnce ==
    [][\A id \in DOMAIN applications : \A f \in DateFields :
         (/\ UpdateStep(id)
          /\ applications[id][f] # Null
          /\ ~Supplied(last'.patch, f))
         => applications'[id][f] = applications[id][f]]_vars

\* the application went back into "applied" and kept the date stamped by an
\* earlier call
C2_Witness ==
    /\ last.op = "update_application" /\ last.result = "ok"
    /\ last.patch.status = "applied"
    /\ ~Supplied(last.patch, "applied_date")
    /\ applications[1].updated_at = now - 1
    /\ applications[1].applied_date # Null
    /\ applications[1].applied_date < now - 1
    /\ applications[1].rejected_date # Null

----------------------------------------------------------------------------
(* C4 *)

\* C4: update_application on an id that names no Application, or an
\* Application of another user, answers NotFound for every patch and
\* leaves every table (Application and Offer rows included) as it was.
C4_NotOwnedIsNotFound ==
    [][(/\ last'.op = "update_application"
        /\ \/ last'.id \notin DOMAIN applications
           \/ applications[last'.id].user_id # last'.user)
       => /\ last'.result = "NotFound"
          /\ UNCHANGED <<tables, nextId>>]_vars

\* a user's patch into "offer" on the other user's Application was refused
C4_Witness ==
    /\ last.op = "update_application" /\ last.result = "NotFound"
    /\ last.patch.status = "offer"
    /\ last.id \in DOMAIN applications
    /\ applications[last.id].user_id # last.user
    /\ applications[last.id].status = "saved"
    /\ offers = << >>

----------------------------------------------------------------------------
(* C6 *)

\* rows of a child table that hang off other applications than id
OthersRows(rows, id) ==
    [k \in {x \in DOMAIN rows : rows[x].application_id # id} |-> rows[k]]

\* C6: after a successful delete_application no Interview, Offer or
\* Deadline row carries the deleted id, and the Interview, Offer and
\* Deadline rows of every other Application are as they were.
C6_DeleteCascades ==
    [][(last'.op = "delete_application" /\ last'.result = "ok")
       => LET id == last'.id IN
          /\ id \notin DOMAIN applications'
          /\ InterviewsOf(interviews', id) = {}
          /\ OffersOf(offers', id) = {}
          /\ DeadlinesOf(deadlines', id) = {}
          /\ interviews' = OthersRows(interviews, id)
          /\ offers' = OthersRows(offers, id)
          /\ deadlines' = OthersRows(deadlines, id)]_vars

\* an Application with an Interview, an Offer and a Deadline was deleted
\* while another Application keeps one row of each kind
C6_Witness ==
    /\ last.op = "delete_application" /\ last.result = "ok"
    /\ nextId.interview = 3 /\ Cardinality(DOMAIN interviews) = 1
    /\ nextId.offer = 3 /\ Cardinality(DOMAIN offers) = 1
    /\ nextId.deadline = 3 /\ Cardinality(DOMAIN deadlines) = 1
    /\ Cardinality(DOMAIN applications) = 1

----------------------------------------------------------------------------
(* C7 *)

\* C7: after a successful delete_resume every Application is still there;
\* those that referenced the Resume have resume_id null and every other
\* column as before, the others are unchanged.
C7_DeleteResumeKeepsApplications ==
    [][(last'.op = "delete_resume" /\ last'.result = "ok")
       => /\ DOMAIN applications' = DOMAIN applications
          /\ \A id \in DOMAIN applications :
               applications'[id] =
                 IF applications[id].resume_id = last'.id
                 THEN [applications[id] EXCEPT !.resume_id = Null]
                 ELSE applications[id]]_vars

\* the Resume of Init is gone, two Applications that were created with it
\* are there with resume_id null, one of them holding an Offer
C7_Witness ==
    /\ last.op = "delete_resume" /\ last.result = "ok" /\ last.id = 1
    /\ DOMAIN applications = {1, 2}
    /\ applications[1].resume_id = Null
    /\ applications[2].resume_id = Null /\ applications[2].user_id = 1
    /\ offers # << >>

----------------------------------------------------------------------------
(* C5 *)

\* C5: a call of update_application that ends NotFound at the Job lookup
\* has written nothing: each of its steps up to and including the failed
\* lookup (load and change the Application object, look the Job up) leaves
\* every committed row, Application and Offer rows included, as it was.
C5_FailedCallWritesNothing ==
    [][\A r \in Slots :
         (reqs'[r] # reqs[r] /\ reqs[r].pc \in {"load", "job"})
         => UNCHANGED <<tables, nextId>>]_vars

\* a transition into "offer" has ended NotFound at the Job lookup
C5_Witness ==
    /\ last.op = "update_application"
    /\ last.result = "NotFound" /\ last.detail = "Job not found"
    /\ last.patch.status = "offer"

----------------------------------------------------------------------------
(* C11 *)

\* the status that goes with each lifecycle date
StatusOfDate ==
    [applied_date |-> "applied", interview_date |-> "interview",
     rejected_date |-> "rejected"]

\* a successful call on Application id left it in the status of date f,
\* which was unset before the call and is not carried by the patch
C11Case(id, f) ==
    /\ UpdateStep(id)
    /\ last'.result = "ok"
    /\ applications'[id].status = StatusOfDate[f]
    /\ applications[id][f] = Null
    /\ ~Supplied(last'.patch, f)

\* C11 as stated: after a successful update_application, with or without a
\* status in the patch, an Application whose resulting status is "applied"
\* ("interview", "rejected") and whose applied_date (interview_date,
\* rejected_date) was unset and is not in the patch has that date set to
\* the time of the call.
C11_Original ==
    [][\A id \in DOMAIN applications : \A f \in DOMAIN StatusOfDate :
         C11Case(id, f) => applications'[id][f] = now]_vars

\* C11 (amended): the date is set to the time of the call when the patch
\* carries a non-empty status; a successful call whose patch carries no
\* status (or an empty one) leaves the unset date unset.
C11_StampOnSuppliedStatus ==
    [][\A id \in DOMAIN applications : \A f \in DOMAIN StatusOfDate :
         C11Case(id, f)
         => applications'[id][f] =
              IF last'.patch.status \notin {NullStr, ""} THEN now ELSE Null]_vars

\* an Application created as "applied" without a date was patched without a
\* status and has no applied_date; another was stamped by a status patch
C11_Witness ==
    /\ last.op = "update_application" /\ last.result = "ok"
    /\ last.patch.status = NullStr
    /\ \E id \in DOMAIN applications :
         /\ id = last.id
         /\ applications[id].status = "applied"
         /\ applications[id].applied_date = Null
         /\ applications[id].updated_at = now - 1
    /\ \E id \in DOMAIN applications :
         /\ applications[id].status = "applied"
         /\ applications[id].applied_date = applications[id].updated_at

----------------------------------------------------------------------------
(* C12 *)

\* the scalar columns of an Application a patch can carry
ScalarFields ==
    {"status", "applied_date", "interview_date", "rejected_date",
     "rejection_reason", "resume_id", "notes"}

\* column f of Application id is as before the call, or is a lifecycle date
\* that was unset and now holds the time of the call
KeptOrStamped(id, f) ==
    \/ applications'[id][f] = applications[id][f]
    \/ /\ f \in DOMAIN StatusOfDate
       /\ applications[id][f] = Null
       /\ applications'[id][f] = now

\* a successful call on Application id whose request body was b
C12Case(id, b) ==
    /\ UpdateStep(id)
    /\ last'.result = "ok"
    /\ last'.patch = ParseUpdate(b)

\* C12 as stated: a scalar field the body omits keeps its prior value (a
\* lifecycle date may be stamped), and a field the body carries as null is
\* stored as null.
C12_Original ==
    [][\A id \in DOMAIN applications : \A b \in PatchBodies :
         C12Case(id, b)
         => \A f \in ScalarFields :
              IF f \notin DOMAIN b THEN KeptOrStamped(id, f)
              ELSE b[f] = NoPatch[f] => applications'[id][f] = NoPatch[f]]_vars

\* C12 (amended): a scalar field the body omits and a scalar field the
\* body carries as null both keep their prior value (a lifecycle date may
\* be stamped): null cannot clear a stored value.
C12_NullKeepsValue ==
    [][\A id \in DOMAIN applications : \A b \in PatchBodies :
         C12Case(id, b)
         => \A f \in ScalarFields :
              (f \notin DOMAIN b \/ b[f] = NoPatch[f])
              => KeptOrStamped(id, f)]_vars

\* a body with notes null was served and the notes stored two calls ago,
\* the rejection_reason and the resume_id are still there
C12_Witness ==
    /\ last.op = "update_application" /\ last.result = "ok"
    /\ \E b \in PatchBodies :
         /\ "notes" \in DOMAIN b /\ b.notes = NullStr
         /\ last.patch = ParseUpdate(b)
    /\ applications[1].updated_at = now - 1
    /\ applications[1].notes = "phoned"
    /\ applications[1].rejection_reason = "no fit"
    /\ applications[1].resume_id = 1

----------------------------------------------------------------------------
(* C13 *)

\* C13: every successful call of update_application sets the updated_at of
\* its Application to the time of the call, whatever the patch: the empty
\* patch and patches that change no column included.
C13_UpdatedAtEveryCall ==
    [][\A id \in DOMAIN applications :
         (UpdateStep(id) /\ last'.result = "ok")
         => applications'[id].updated_at = now]_vars

\* the empty patch was served on the Application of Init: only updated_at
\* differs from the row as it was created
C13_Witness ==
    /\ last.op = "update_application" /\ last.result = "ok"
    /\ last.patch = NoPatch /\ last.id = 1
    /\ applications[1] =
         [NewApplication(1, 1, 1, "saved", 1, NullStr, StartTime - 1)
            EXCEPT !.updated_at = now - 1]

----------------------------------------------------------------------------
(* C14 *)

\* the strings without an upper-case letter among those the model stores
LowercaseStrings ==
    {"", "saved", "applied", "interview", "offer", "rejected", "on hold"}

\* C14: every stored status is a lowercase string, before and after every
\* create_application and update_application call; and a successful
\* update_application whose patch spells the status "Offer" or "OFFER", on
\* an Application not in status "offer", stores "offer" and runs the Offer
\* side effect (an Offer row of the Application is written at the time of
\* the call).
C14_StatusLowercased ==
    [][/\ \A id \in DOMAIN applications :
            applications[id].status \in LowercaseStrings
       /\ \A id \in DOMAIN applications' :
            applications'[id].status \in LowercaseStrings
       /\ \A id \in DOMAIN applications :
            (/\ UpdateStep(id)
             /\ last'.result = "ok"
             /\ last'.patch.status \in {"Offer", "OFFER"}
             /\ applications[id].status # "offer")
            => /\ applications'[id].status = "offer"
               /\ \E o \in OffersOf(offers', id) :
                    offers'[o].updated_at = now]_vars

\* a patch spelling "OFFER" has put an Application created as "Applied"
\* into status "offer" and made its Offer
C14_Witness ==
    /\ last.op = "update_application" /\ last.result = "ok"
    /\ last.patch.status = "OFFER"
    /\ last.id \in DOMAIN applications
    /\ applications[last.id].status = "offer"
    /\ applications[last.id].created_at = now - 2
    /\ \E o \in OffersOf(offers, last.id) :
         offers[o].created_at = now - 1 /\ offers[o].salary = 150000

----------------------------------------------------------------------------
(* C15 *)

\* C15: in every state reached by create_application and
\* update_application calls the status of every Application is one of
\* saved, applied, interview, offer, rejected.
C15_StatusEnumerated ==
    \A id \in DOMAIN applications :
       applications[id].status \in
          {"saved", "applied", "interview", "offer", "rejected"}

----------------------------------------------------------------------------
(* C16 *)

\* the step just taken was a successful create_application
CreateStep == last'.op = "create_application" /\ last'.result = "ok"

\* C16 as stated: right after a successful create_application the new
\* Application has status "saved" and no Offer row.
C16_Original ==
    [][CreateStep
       => /\ applications'[last'.id].status = "saved"
          /\ OffersOf(offers', last'.id) = {}]_vars

\* C16 (amended): right after a successful create_application the new
\* Application has the status of the request in lowercase ("saved" for the
\* default "Saved") and no Offer row, also when that status is "offer".
C16_CreatedWithRequestedStatus ==
    [][CreateStep
       => /\ last'.id \notin DOMAIN applications
          /\ applications'[last'.id].status =
               (CASE last'.patch.status = "Saved" -> "saved"
                  [] last'.patch.status = "Applied" -> "applied"
                  [] last'.patch.status = "Offer" -> "offer"
                  [] last'.patch.status = "On Hold" -> "on hold")
          /\ OffersOf(offers', last'.id) = {}]_vars

\* an Application was created in status "offer" and has no Offer row
C16_Witness ==
    /\ last.op = "create_application" /\ last.result = "ok"
    /\ last.patch.status = "Offer"
    /\ applications[last.id].status = "offer"
    /\ applications[last.id].created_at = now - 1
    /\ OffersOf(offers, last.id) = {}

----------------------------------------------------------------------------
(* C17 *)

\* C17: in every state reached by create_job, delete_job,
\* create_application, update_application and delete_application calls of
\* any users, the job_id of every Application names an existing Job of
\* the Application's user.
C17_JobOfSameUser ==
    \A id \in DOMAIN applications :
       /\ applications[id].job_id \in DOMAIN jobs
       /\ jobs[applications[id].job_id].user_id = applications[id].user_id

\* the Job of Init was deleted and took its Application along, while the
\* Application created on a Job made later is there
C17_Witness ==
    /\ last.op = "delete_job" /\ last.result = "ok" /\ last.id = 1
    /\ DOMAIN applications = {2}
    /\ applications[2].job_id = 3
    /\ applications[2].user_id = jobs[3].user_id

----------------------------------------------------------------------------
(* C18 *)

\* C18: in every state reached by create_application, update_application
\* and delete_resume calls of any users, an Application with a resume_id
\* names an existing Resume of the Application's user.
C18_ResumeOfSameUser ==
    \A id \in DOMAIN applications :
       applications[id].resume_id # Null
       => /\ applications[id].resume_id \in DOMAIN resumes
          /\ resumes[applications[id].resume_id].user_id =
               applications[id].user_id

----------------------------------------------------------------------------
(* C19 *)

\* C19: in every reachable state the application_id of every Offer row,
\* made by create_offer or by the side effect of update_application, names
\* an existing Application whose user_id is the Offer's user_id.
C19_OfferOfSameUser ==
    \A o \in DOMAIN offers :
       /\ offers[o].application_id \in DOMAIN applications
       /\ applications[offers[o].application_id].user_id = offers[o].user_id

\* there is an Offer made by the side effect for user 1 and an Offer made
\* by create_offer for user 2
C19_Witness ==
    /\ last.op = "create_offer" /\ last.user = 2
    /\ last.id \in DOMAIN offers
    /\ offers[last.id].user_id = 2 /\ offers[last.id].salary = 120000
    /\ \E o \in OffersOf(offers, 1) :
         offers[o].user_id = 1 /\ offers[o].salary = 150000

----------------------------------------------------------------------------
(* C20 *)

\* C20: an Offer row that is there before a step and gone after it was
\* removed by a successful delete_offer of that Offer, by the
\* delete_application of its Application or by the delete_job of that
\* Application's Job; a call of update_application removes no Offer row.
C20_OffersRemovedOnlyByDelete ==
    [][\A o \in DOMAIN offers :
         o \notin DOMAIN offers'
         => /\ last'.result = "ok"
            /\ \/ last'.op = "delete_offer" /\ last'.id = o
               \/ /\ last'.op = "delete_application"
                  /\ last'.id = offers[o].application_id
               \/ /\ last'.op = "delete_job"
                  /\ offers[o].application_id \in DOMAIN applications
                  /\ last'.id = applications[offers[o].application_id].job_id]_vars

\* the Offer made by the transition into "offer" outlived the move to
\* "rejected" and was then removed by delete_offer
C20_Witness ==
    /\ last.op = "delete_offer" /\ last.result = "ok" /\ last.id = 1
    /\ offers = << >>
    /\ nextId.offer = 2
    /\ applications[1].status = "rejected"
    /\ applications[1].rejected_date = now - 1

----------------------------------------------------------------------------
(* C21 *)

\* the rows of a table that belong to other users than u
RowsOfOthers(rows, u) ==
    [k \in {x \in DOMAIN rows : rows[x].user_id # u} |-> rows[k]]

\* every reference from a row to a row of another table stays within one
\* user: the Job and the Resume of an Application, the Application of an
\* Offer, an Interview and a Deadline
ReferencesWithinUser(js, rs, apps, offs, ivs, dls) ==
    /\ \A id \in DOMAIN apps :
         /\ apps[id].job_id \in DOMAIN js
            => js[apps[id].job_id].user_id = apps[id].user_id
         /\ apps[id].resume_id \in DOMAIN rs
            => rs[apps[id].resume_id].user_id = apps[id].user_id
    /\ \A child \in {offs, ivs, dls} : \A k \in DOMAIN child :
         child[k].application_id \in DOMAIN apps
         => apps[child[k].application_id].user_id = child[k].user_id

\* C21: a call made by a user leaves the rows of every other user, in
\* every table, as they were (none is changed or deleted), and after
\* every call no row refers to a row of another user.
C21_OwnerScoping ==
    [][/\ \A rows \in {<<jobs, jobs'>>, <<resumes, resumes'>>,
                       <<applications, applications'>>, <<offers, offers'>>,
                       <<interviews, interviews'>>, <<deadlines, deadlines'>>} :
            RowsOfOthers(rows[2], last'.user) = RowsOfOthers(rows[1], last'.user)
       /\ ReferencesWithinUser(jobs', resumes', applications', offers',
                               interviews', deadlines')]_vars

----------------------------------------------------------------------------
(* C22 *)

OfferOwned(offs, u, o) == o \in DOMAIN offs /\ offs[o].user_id = u

\* the Offer row after a patch of exactly the fields of body at time t
PatchedExactly(old, new, body, t) ==
    /\ \A k \in DOMAIN body : k \in DOMAIN new /\ new[k] = body[k]
    /\ \A k \in DOMAIN old \ (DOMAIN body \cup {"updated_at"}) :
          k \in DOMAIN new /\ new[k] = old[k]
    /\ new.updated_at = t

----------------------------------------------------------------------------
(* C23 *)

\* C23: an update_application call after which the Application's status is
\* not "offer" leaves every Offer row as it was and adds none; a new Offer
\* row appears only in a create_offer step, or in an update_application step
\* that takes its Application from another status into "offer".
C23_OffersMadeOnlyOnTransition ==
    [][/\ \A id \in DOMAIN applications' :
            ( /\ UpdateStep(id)
              /\ applications'[id].status # "offer" )
            => offers' = offers
       /\ \A o \in DOMAIN offers' \ DOMAIN offers :
            \/ last'.op = "create_offer"
            \/ /\ last'.op = "update_application"
               /\ offers'[o].application_id = last'.id
               /\ applications[last'.id].status # "offer"
               /\ applications'[last'.id].status = "offer"]_vars

\* an Application that never was in status "offer" is rejected while it has
\* an Offer made by create_offer
C23_Witness ==
    /\ last.op = "update_application" /\ last.result = "ok" /\ last.id = 1
    /\ last.patch.status = "rejected"
    /\ applications[1].status = "rejected"
    /\ NumOffers(offers, 1) = 1
    /\ \A o \in OffersOf(offers, 1) :
         offers[o].salary = 120000 /\ offers[o].updated_at = offers[o].created_at

----------------------------------------------------------------------------
(* C24 *)

\* the step in which request r leaves its commit
CommitStep(r) == reqs[r].pc = "commit" /\ reqs'[r].pc = "idle"

----------------------------------------------------------------------------
(* C25 *)

\* the step in which request r ends with NotFound
NotFoundStep(r) ==
    /\ reqs[r].pc # "idle" /\ reqs'[r].pc = "idle"
    /\ last' # last /\ last'.result = "NotFound"

\* C25 as stated: when a call ends in NotFound, no field of its Application
\* object and no Offer has been written at an earlier step of the call.
C25_Original ==
    [][\A r \in Slots :
         NotFoundStep(r)
         => /\ reqs[r].a \in {NoRow, reqs[r].loaded}
            /\ reqs[r].offer = NoRow
            /\ UNCHANGED tables]_vars

\* C25: only the check of the Application comes before every assignment. A
\* call that ends with "Application not found" has assigned nothing; a call
\* that ends with "Job not found" has already assigned the patch, the
\* stamped dates and updated_at on the Application object of its session
\* (lines 91-115 run before the Job lookup of lines 129-131), has built or
\* changed no Offer, and has written no row: every step of a request but its
\* commit leaves the tables as they are.
C25_JobCheckedAfterAssignment ==
    [][\A r \in Slots :
         /\ (reqs'[r] # reqs[r] /\ reqs[r].pc # "commit") => UNCHANGED tables
         /\ NotFoundStep(r)
            => /\ reqs[r].offer = NoRow
               /\ last'.detail = "Application not found"
                  => reqs[r].a = NoRow
               /\ last'.detail = "Job not found"
                  => /\ reqs[r].a = Touched(reqs[r].loaded, reqs[r].patch, reqs[r].t)
                     /\ reqs[r].a # reqs[r].loaded
                     /\ reqs[r].a.status = "offer"]_vars

\* a transition into "offer" ended with "Job not found" after the Job and,
\* with it, the Application were deleted
C25_Witness ==
    /\ last.op = "update_application" /\ last.result = "NotFound"
    /\ last.detail = "Job not found"
    /\ 1 \notin DOMAIN jobs /\ 1 \notin DOMAIN applications
    /\ offers = << >>

----------------------------------------------------------------------------
(* C26 *)

\* C26: an Offer made by update_application carries the company and title
\* its Job has at that moment, and from then on every step, update_job and
\* a later transition into "offer" included, leaves the company_name and
\* position of every existing Offer as they are.
C26_CompanyAndPositionAreACopy ==
    [][/\ \A o \in DOMAIN offers \cap DOMAIN offers' :
            /\ offers'[o].company_name = offers[o].company_name
            /\ offers'[o].position = offers[o].position
       /\ \A o \in DOMAIN offers' \ DOMAIN offers :
            last'.op = "update_application"
            => LET j == jobs[applications[last'.id].job_id] IN
               /\ offers'[o].company_name = j.company
               /\ offers'[o].position = j.title]_vars

\* the Job was renamed after the Offer was made, and the Application has
\* gone into "offer" a second time: the Offer still names the old company
C26_Witness ==
    /\ last.op = "update_application" /\ last.result = "ok"
    /\ last.patch.status = "offer"
    /\ jobs[1].company = "Initech" /\ jobs[1].title = "Manager"
    /\ \E o \in OffersOf(offers, 1) :
         /\ offers[o].company_name = "Acme" /\ offers[o].position = "Engineer"
         /\ offers[o].updated_at > offers[o].created_at

----------------------------------------------------------------------------
(* C27 *)

\* an Application in status "offer" that has no Offer row
OfferStatusWithoutOffer(apps, offs, id) ==
    /\ id \in DOMAIN apps
    /\ apps[id].status = "offer"
    /\ NumOffers(offs, id) = 0

\* C27 as stated: every Application in status "offer" has at least one Offer
\* row.
C27_Original ==
    \A id \in DOMAIN applications : ~OfferStatusWithoutOffer(applications, offers, id)

\* C27: an Application comes to be in status "offer" without an Offer row
\* only by a create_application with status "offer" or by a delete_offer of
\* its last Offer; an update_application that takes an Application into
\* "offer" leaves it with at least one Offer row.
C27_OfferStatusWithoutOfferOnlyByCreateOrDelete ==
    [][\A id \in DOMAIN applications' :
         ( /\ OfferStatusWithoutOffer(applications', offers', id)
           /\ ~OfferStatusWithoutOffer(applications, offers, id) )
         => \/ /\ last'.op = "create_application" /\ last'.id = id
               /\ id \notin DOMAIN applications
            \/ /\ last'.op = "delete_offer" /\ last'.result = "ok"
               /\ OffersOf(offers, id) = {last'.id}]_vars

\* an Application went into "offer" by update_application and has its Offer,
\* next to one created in status "offer" that has none
C27_Witness ==
    /\ last.op = "update_application" /\ last.result = "ok"
    /\ last.patch.status = "offer" /\ last.id = 1
    /\ applications[1].status = "offer" /\ NumOffers(offers, 1) = 1
    /\ OfferStatusWithoutOffer(applications, offers, 2)

----------------------------------------------------------------------------
(* C28 *)

\* C28: an update_application step that takes an Application with at least
\* one Offer row from another status into "offer" adds no Offer row and
\* removes none, and changes at most one of the rows there are.
C28_TransitionWithOffersAddsNone ==
    [][\A id \in DOMAIN applications :
         ( /\ UpdateStep(id) /\ last'.result = "ok"
           /\ applications[id].status # "offer"
           /\ applications'[id].status = "offer"
           /\ NumOffers(offers, id) >= 1 )
         => /\ DOMAIN offers' = DOMAIN offers
            /\ Cardinality({o \in DOMAIN offers : offers'[o] # offers[o]}) <= 1]_vars

\* application 1 had two Offers made by create_offer when it went into
\* "offer": there are still two, one of them changed by the transition
C28_Witness ==
    /\ last.op = "update_application" /\ last.result = "ok" /\ last.id = 1
    /\ last.patch.status = "offer"
    /\ applications[1].status = "offer"
    /\ NumOffers(offers, 1) = 2
    /\ \E o1, o2 \in OffersOf(offers, 1) :
         /\ offers[o1].salary = 150000 /\ offers[o1].updated_at = now - 1
         /\ offers[o2].salary = 120000 /\ offers[o2].updated_at = offers[o2].created_at

----------------------------------------------------------------------------
(* C29 *)

\* C29: when requests on one Application overlap, the commit of a request
\* whose patch does not supply a lifecycle date leaves that date as it is
\* stored once another request has committed a value for it.
C29_DatesWriteOnceAcrossRequests ==
    [][\A r \in Slots, f \in DateFields :
         ( /\ CommitStep(r)
           /\ reqs[r].id \in DOMAIN applications
           /\ applications[reqs[r].id][f] # Null
           /\ ~Supplied(reqs[r].patch, f) )
         => applications'[reqs[r].id][f] = applications[reqs[r].id][f]]_vars

----------------------------------------------------------------------------
(* C30 *)

\* C30: whatever the order of the steps of overlapping update_application
\* and create_offer requests and of the deletion of the Application or its
\* Job, every Offer row in the table names an Application that is in the
\* table.
C30_NoOfferWithoutApplication ==
    \A o \in DOMAIN offers : offers[o].application_id \in DOMAIN applications

\* a create_offer found its Application, the Application was deleted, and
\* the INSERT failed: no Offer is left
C30_Witness ==
    /\ last.op = "create_offer" /\ last.result = "InternalError"
    /\ last.detail = "IntegrityError"
    /\ applications = << >>
    /\ offers = << >>
    /\ nextId.offer > 1

============================================================================
